---- MODULE Spec2Model ----
(***************************************************************************)
(* Request governance of the Jira plugin: the token-bucket RateLimiter,    *)
(* the retrying ObsidianHttpClient.request loop and the request            *)
(* deduplication of JiraApiService.                                        *)
(*                                                                         *)
(* Conventions.  An optional JavaScript value is a sequence: <<>> is       *)
(* undefined, <<v>> is v.  A message string is the sequence of its         *)
(* lower-case words, and String.includes(w) is membership of the word w.   *)
(* Times are milliseconds of Date.now().  The timestamp fields of error    *)
(* objects are left out.  (elapsed / 60000) * requestsPerMinute is         *)
(* computed on the exact rational elapsed * requestsPerMinute / 60000.     *)
(***************************************************************************)
EXTENDS Integers, Sequences, FiniteSets, TLC

VARIABLES
    now,            \* Date.now()
    rl,             \* the RateLimiter instance
    nextTick,       \* time at which the setInterval callback is next due
    grantLog,       \* history: times of the acquireToken() calls answered allowed:true
    lastResult,     \* history: the RateLimitResult of the latest acquireToken()
    lastRead,       \* history: what the latest getStats() or getQueueSize() returned
    req,            \* one call of ObsidianHttpClient.request (stand-alone client)
    hreq,           \* one call of HttpClient.request (the axios client)
    dedupMap,       \* JiraApiService.requestDeduplicationMap: cacheKey -> promise
    execs,          \* the executions of a requestFn, by promise id
    calls,          \* history: the calls made to the service, in issue order
    tokensGranted,  \* history: number of acquireToken() answered allowed:true for the service
    transportCalls, \* history: number of requestUrl() invocations made for the service
    batches         \* the calls of batchUpdateIssues, batchGetIssues, batchTransitionIssues

vars == <<now, rl, nextTick, grantLog, lastResult, lastRead, req, hreq, dedupMap, execs, calls,
          tokensGranted, transportCalls, batches>>

limVars == <<rl, nextTick, grantLog, lastResult, lastRead>>
httpVars == <<req, hreq>>
svcVars == <<dedupMap, execs, calls, tokensGranted, transportCalls, batches>>

(***************************************************************************)
(* Bounds of the model                                                     *)
(***************************************************************************)
MaxClock == 3000        \* the clock of the limiter on its own stops here
MaxServiceClock == 1000 \* the clock of the wired stack stops here
MaxGrants == 5          \* grants recorded in grantLog
MaxCalls == 3           \* calls made to the service
MaxWaiters == 3         \* waiters in the queue of a limiter
MaxBatchItems == 2      \* items of one batch call

\* The clock is observed at these distances.
ClockSteps == {500, 1000}

(***************************************************************************)
(* Program constants                                                       *)
(***************************************************************************)
MsPerMinute == 60000
RefillIntervalMs == 1000

Min(a, b) == IF a <= b THEN a ELSE b

\* RateLimiterConfig values the limiter is constructed with.
LimiterConfigs ==
    { [requestsPerMinute |-> 100, burstLimit |-> 2],
      [requestsPerMinute |-> 60,  burstLimit |-> 1] }

\* The configurations of the limiter on its own: a bucket of three as well.
BucketConfigs == LimiterConfigs \cup { [requestsPerMinute |-> 100, burstLimit |-> 3] }

(***************************************************************************)
(* RateLimiter                                                             *)
(***************************************************************************)
NewRateLimiter(config, t) ==
    [ requestsPerMinute |-> config.requestsPerMinute,
      burstLimit        |-> config.burstLimit,
      tokens            |-> config.burstLimit,
      lastRefillTime    |-> t,
      queue             |-> <<>>,     \* waiters, oldest first
      resolved          |-> <<>>,     \* history: <<waiter, RateLimitResult>> in resolution order
      timerActive       |-> TRUE ]    \* the refillInterval timer is registered

RECURSIVE processQueue_newestFirst(_)
processQueue_newestFirst(l) ==
    IF Len(l.queue) > 0 /\ l.tokens > 0
    THEN processQueue_newestFirst(
            [l EXCEPT !.queue = SubSeq(@, 1, Len(@) - 1),
                      !.tokens = @ - 1,
                      !.resolved = Append(@, << l.queue[Len(l.queue)],
                                     [allowed |-> TRUE, remaining |-> l.tokens - 1,
                                      retryAfter |-> <<>>, error |-> <<>>] >>)])
    ELSE l

RECURSIVE processQueue(_)
processQueue(l) ==
    IF Len(l.queue) > 0 /\ l.tokens > 0
    THEN processQueue(
            [l EXCEPT !.queue = Tail(@),
                      !.tokens = @ - 1,
                      !.resolved = Append(@, << Head(l.queue),
                                     [allowed |-> TRUE, remaining |-> l.tokens - 1,
                                      retryAfter |-> <<>>, error |-> <<>>] >>)])
    ELSE l

refillTokens_uncapped(l, t) ==
    LET scaled == (t - l.lastRefillTime) * l.requestsPerMinute
    IN  IF scaled >= MsPerMinute
        THEN processQueue([l EXCEPT !.tokens = @ + (scaled \div MsPerMinute),
                                    !.lastRefillTime = t])
        ELSE l

\* scaled = tokensToAdd * 60000, so tokensToAdd >= 1 iff scaled >= 60000 and
\* Math.floor(tokensToAdd) = scaled \div 60000.
refillTokens(l, t) ==
    LET scaled == (t - l.lastRefillTime) * l.requestsPerMinute
    IN  IF scaled >= MsPerMinute
        THEN processQueue([l EXCEPT !.tokens = Min(l.burstLimit, @ + (scaled \div MsPerMinute)),
                                    !.lastRefillTime = t])
        ELSE l

calculateRetryAfter(l) ==
    IF l.tokens > 0
    THEN 0
    ELSE (MsPerMinute + l.requestsPerMinute - 1) \div l.requestsPerMinute

acquireToken_enqueuesWhenDenied(l, t) ==
    LET r == refillTokens(l, t)
    IN  IF r.tokens > 0
        THEN [ lim    |-> [r EXCEPT !.tokens = @ - 1],
               result |-> [allowed |-> TRUE, remaining |-> r.tokens - 1,
                           retryAfter |-> <<>>, error |-> <<>>] ]
        ELSE [ lim    |-> [r EXCEPT !.queue = Append(@, Len(@) + 1)],
               result |-> [allowed |-> FALSE, remaining |-> 0,
                           retryAfter |-> <<calculateRetryAfter(r)>>,
                           error |-> <<"RATE_LIMITED">>] ]

acquireToken_noDecrement(l, t) ==
    LET r == refillTokens(l, t)
    IN  IF r.tokens > 0
        THEN [ lim    |-> r,
               result |-> [allowed |-> TRUE, remaining |-> r.tokens - 1,
                           retryAfter |-> <<>>, error |-> <<>>] ]
        ELSE [ lim    |-> r,
               result |-> [allowed |-> FALSE, remaining |-> 0,
                           retryAfter |-> <<calculateRetryAfter(r)>>,
                           error |-> <<"RATE_LIMITED">>] ]

acquireToken_remainingBefore(l, t) ==
    LET r == refillTokens(l, t)
    IN  IF r.tokens > 0
        THEN [ lim    |-> [r EXCEPT !.tokens = @ - 1],
               result |-> [allowed |-> TRUE, remaining |-> r.tokens,
                           retryAfter |-> <<>>, error |-> <<>>] ]
        ELSE [ lim    |-> r,
               result |-> [allowed |-> FALSE, remaining |-> 0,
                           retryAfter |-> <<calculateRetryAfter(r)>>,
                           error |-> <<"RATE_LIMITED">>] ]

\* The body of acquireToken() has no await: it runs to its return in one step.
acquireToken(l, t) ==
    LET r == refillTokens(l, t)
    IN  IF r.tokens > 0
        THEN [ lim    |-> [r EXCEPT !.tokens = @ - 1],
               result |-> [allowed |-> TRUE, remaining |-> r.tokens - 1,
                           retryAfter |-> <<>>, error |-> <<>>] ]
        ELSE [ lim    |-> r,
               result |-> [allowed |-> FALSE, remaining |-> 0,
                           retryAfter |-> <<calculateRetryAfter(r)>>,
                           error |-> <<"RATE_LIMITED">>] ]

\* getQueueSize() and getStats(): the limiter they leave, and what they return.
\* t is Date.now(), which neither of them reads.
getQueueSize(l) == [lim |-> l, result |-> Len(l.queue)]

getStats_lazyRefill(l, t) ==
    LET r == refillTokens(l, t)
    IN  [ lim    |-> r,
          result |-> [requestsPerMinute |-> r.requestsPerMinute,
                      burstLimit        |-> r.burstLimit,
                      currentTokens     |-> r.tokens,
                      queueSize         |-> Len(r.queue),
                      lastRefillTime    |-> r.lastRefillTime] ]

getStats(l, t) ==
    [ lim    |-> l,
      result |-> [requestsPerMinute |-> l.requestsPerMinute,
                  burstLimit        |-> l.burstLimit,
                  currentTokens     |-> l.tokens,
                  queueSize         |-> Len(l.queue),
                  lastRefillTime    |-> l.lastRefillTime] ]

RECURSIVE resolveAllDestroyed(_, _)
resolveAllDestroyed(q, done) ==
    IF q = <<>> THEN done
    ELSE resolveAllDestroyed(Tail(q),
            Append(done, << Head(q), [allowed |-> FALSE, remaining |-> 0,
                                      retryAfter |-> <<>>,
                                      error |-> <<"RATE_LIMITER_DESTROYED">>] >>))

limiterDestroy_dropsWaiters(l) ==
    [l EXCEPT !.timerActive = FALSE, !.queue = <<>>]

limiterDestroy(l) ==
    [l EXCEPT !.timerActive = FALSE,
              !.resolved = resolveAllDestroyed(l.queue, @),
              !.queue = <<>>]

(***************************************************************************)
(* The limiter on its own, under a clock                                   *)
(***************************************************************************)
NoRequest == [pc |-> "idle"]

InitLimiter ==
    /\ now = 0
    /\ \E c \in BucketConfigs : rl = NewRateLimiter(c, 0)
    /\ nextTick = RefillIntervalMs
    /\ grantLog = <<>>
    /\ lastResult = <<>>
    /\ lastRead = <<>>
    /\ req = NoRequest
    /\ hreq = NoRequest
    /\ dedupMap = <<>>
    /\ execs = <<>>
    /\ calls = <<>>
    /\ tokensGranted = 0
    /\ transportCalls = 0
    /\ batches = <<>>

AdvanceClock ==
    /\ \E d \in ClockSteps : now + d <= MaxClock /\ now' = now + d
    /\ UNCHANGED <<limVars, httpVars, svcVars>>

\* The setInterval callback: due every RefillIntervalMs, run when the event loop gets to it.
RefillTick ==
    /\ rl.timerActive
    /\ now >= nextTick
    /\ rl' = refillTokens(rl, now)
    /\ nextTick' = nextTick + RefillIntervalMs
    /\ UNCHANGED <<now, grantLog, lastResult, lastRead, httpVars, svcVars>>

AcquireTokenCall ==
    /\ Len(grantLog) < MaxGrants
    /\ LET a == acquireToken(rl, now)
       IN  /\ rl' = a.lim
           /\ lastResult' = <<a.result>>
           /\ grantLog' = IF a.result.allowed THEN Append(grantLog, now) ELSE grantLog
    /\ UNCHANGED <<now, nextTick, lastRead, httpVars, svcVars>>

DestroyLimiter ==
    /\ rl.timerActive
    /\ rl' = limiterDestroy(rl)
    /\ UNCHANGED <<now, nextTick, grantLog, lastResult, lastRead, httpVars, svcVars>>

NextLimiter ==
    \/ AdvanceClock
    \/ RefillTick
    \/ AcquireTokenCall
    \/ DestroyLimiter

SpecLimiter == InitLimiter /\ [][NextLimiter]_vars

(***************************************************************************)
(* C1: in every reachable state of the limiter, 0 <= tokens <= burstLimit. *)
(***************************************************************************)
C1_TokenBound == 0 <= rl.tokens /\ rl.tokens <= rl.burstLimit

\* A refill has topped the bucket up after it had been drained.
C1_Witness ==
    /\ Len(grantLog) > rl.burstLimit
    /\ rl.lastRefillTime > 0
    /\ rl.tokens = rl.burstLimit

(***************************************************************************)
(* C30: no operation of RateLimiter enqueues a waiter.  In every reachable *)
(* state the queue is empty: getQueueSize() returns 0, getStats() reports  *)
(* queueSize 0, processQueue() grants nothing and leaves the limiter as it *)
(* is, and destroy() settles no waiter.                                    *)
(***************************************************************************)
C30_QueueNeverPopulated ==
    /\ rl.queue = <<>>
    /\ getQueueSize(rl).result = 0
    /\ getStats(rl, now).result.queueSize = 0
    /\ processQueue(rl) = rl
    /\ rl.resolved = <<>>
    /\ limiterDestroy(rl).resolved = <<>>

\* A call has been denied, ticks have refilled the bucket since, and the
\* limiter has been destroyed: nobody was waiting at any point.
C30_Witness ==
    /\ lastResult # <<>>
    /\ ~lastResult[1].allowed
    /\ Len(grantLog) > rl.burstLimit
    /\ rl.lastRefillTime > 0
    /\ ~rl.timerActive
    /\ rl.resolved = <<>>

(***************************************************************************)
(* C13: on a fresh limiter with burstLimit = c, while no time has elapsed, *)
(* the i-th acquireToken() for i <= c answers allowed:true with            *)
(* remaining = c - i, and every later call answers allowed:false with      *)
(* remaining 0 and retryAfter = ceil(60000 / requestsPerMinute).           *)
(***************************************************************************)
C13_BurstThenThrottle ==
    (now = 0 /\ lastResult # <<>>) =>
        LET result == lastResult[1]
            c == rl.burstLimit
        IN  IF result.allowed
            THEN /\ Len(grantLog) <= c
                 /\ result.remaining = c - Len(grantLog)
            ELSE /\ Len(grantLog) = c
                 /\ result.remaining = 0
                 /\ result.retryAfter # <<>>
                 /\ result.retryAfter[1] * rl.requestsPerMinute >= 60000
                 /\ (result.retryAfter[1] - 1) * rl.requestsPerMinute < 60000

\* The call that follows a burst of two is denied.
C13_Witness ==
    /\ now = 0
    /\ rl.burstLimit = 2
    /\ Len(grantLog) = 2
    /\ lastResult # <<>>
    /\ ~lastResult[1].allowed
    /\ lastResult[1].retryAfter = <<600>>

(***************************************************************************)
(* C14: with no acquireToken() calls, the 1-second tick never lowers the   *)
(* token count, and a bucket emptied at time t0 is back at burstLimit once *)
(* a tick has run that was due 60000 * burstLimit / requestsPerMinute ms   *)
(* after t0 or later.  The latest acquireToken() having answered           *)
(* remaining 0 means it emptied the bucket at the time of the last grant   *)
(* and nothing was acquired since; the tick due at T has run when          *)
(* nextTick > T.                                                           *)
(***************************************************************************)
C14_RefillTimeToFull ==
    (/\ lastResult # <<>>
     /\ lastResult[1].allowed
     /\ lastResult[1].remaining = 0)
    => LET t0 == grantLog[Len(grantLog)]
           T == nextTick - RefillIntervalMs       \* the latest tick that has run
       IN  (T - t0) * rl.requestsPerMinute >= 60000 * rl.burstLimit
           => rl.tokens = rl.burstLimit

(***************************************************************************)
(* C2: the number of grants during any time span of T ms is at most        *)
(* burstLimit + floor(T * requestsPerMinute / 60000).                      *)
(***************************************************************************)
C2_ThroughputCap ==
    \A i \in 1..Len(grantLog) : \A j \in i..Len(grantLog) :
        (j - i + 1) <= rl.burstLimit
                       + ((grantLog[j] - grantLog[i]) * rl.requestsPerMinute) \div MsPerMinute

(***************************************************************************)
(* ObsidianHttpClient                                                      *)
(***************************************************************************)
DefaultMaxRetries == 3
BaseDelayMs == 1000
MaxDelayMs == 30000

RECURSIVE Pow2(_)
Pow2(n) == IF n <= 0 THEN 1 ELSE 2 * Pow2(n - 1)

includes(message, word) == \E i \in 1..Len(message) : message[i] = word

\* What the server may put in an error body, and what a transport failure may say.
ErrMsgs ==
    { <<>>, <<"issue", "not", "found">>, <<"request", "timeout">>,
      <<"network", "unreachable">> }
ThrowMsgs ==
    { <<"net", "ERR_NAME_NOT_RESOLVED">>, <<"network", "error">>, <<"request", "timeout">> }
ErrorStatuses == {304, 400, 401, 403, 404, 408, 429, 500, 503}
SuccessStatuses == {200, 204}
Payloads == {"issue-A", "issue-B"}
NoBody == [message |-> <<>>, errorMessages |-> <<>>, payload |-> ""]

\* A JavaScript number that may be NaN.
NaN == [isNaN |-> TRUE, value |-> 0]
Num(n) == [isNaN |-> FALSE, value |-> n]
times(x, n) == IF x.isNaN THEN NaN ELSE Num(x.value * n)

\* A header value is the sequence of its characters; <<>> is an absent header
\* (or an empty one: both are falsy).  The third is how an HTTP-date begins.
RetryAfterHeaders ==
    { <<>>, <<"5">>, <<"1", "2", "0">>, <<"W", "e", "d", ",", " ", "2", "1">> }
HeadersFor(status) == IF status = 429 THEN RetryAfterHeaders ELSE {<<>>}

DigitValue ==
    [c \in {"0", "1", "2", "3", "4", "5", "6", "7", "8", "9"} |->
        CASE c = "0" -> 0 [] c = "1" -> 1 [] c = "2" -> 2 [] c = "3" -> 3 [] c = "4" -> 4
          [] c = "5" -> 5 [] c = "6" -> 6 [] c = "7" -> 7 [] c = "8" -> 8 [] c = "9" -> 9]

RECURSIVE skipWhiteSpace(_)
skipWhiteSpace(str) ==
    IF str # <<>> /\ Head(str) = " " THEN skipWhiteSpace(Tail(str)) ELSE str

\* The value of the longest prefix of decimal digits, <<>> when there is none.
RECURSIVE digitsPrefix(_, _)
digitsPrefix(str, acc) ==
    IF str # <<>> /\ Head(str) \in DOMAIN DigitValue
    THEN digitsPrefix(Tail(str), <<(IF acc = <<>> THEN 0 ELSE acc[1] * 10) + DigitValue[Head(str)]>>)
    ELSE acc

\* parseInt(string), radix 10: leading white space, a sign, then digits up to
\* the first character that is not one; NaN when no digit is found.
parseInt(str) ==
    LET s1 == skipWhiteSpace(str)
        negative == s1 # <<>> /\ Head(s1) = "-"
        s2 == IF s1 # <<>> /\ Head(s1) \in {"+", "-"} THEN Tail(s1) ELSE s1
        digits == digitsPrefix(s2, <<>>)
    IN  IF digits = <<>> THEN NaN
        ELSE Num(IF negative THEN 0 - digits[1] ELSE digits[1])

\* parseInt(headers['retry-after'] || '60') * 1000
retryAfterOf(header) ==
    times(parseInt(IF header # <<>> THEN header ELSE <<"6", "0">>), 1000)

\* RequestUrlResponse.  jsonOk: the json getter parses the body; when it does
\* not, it throws.  retryAfterHeader: headers['retry-after'].
ErrorResponses ==
    UNION { { [kind |-> "response", status |-> st, contentTypeJson |-> TRUE, jsonOk |-> TRUE,
               json |-> [message |-> m, errorMessages |-> ems, payload |-> ""],
               text |-> <<>>, retryAfterHeader |-> h]
                : m \in ErrMsgs, ems \in {<<>>} \cup { <<e>> : e \in ErrMsgs \ {<<>>} },
                  h \in HeadersFor(st) }
            \cup
            { [kind |-> "response", status |-> st, contentTypeJson |-> FALSE, jsonOk |-> FALSE,
               json |-> NoBody, text |-> tx, retryAfterHeader |-> h]
                : tx \in ErrMsgs, h \in HeadersFor(st) }
          : st \in ErrorStatuses }
SuccessResponses ==
    { [kind |-> "response", status |-> st, contentTypeJson |-> ct, jsonOk |-> ok,
       json |-> [message |-> <<>>, errorMessages |-> <<>>, payload |-> p], text |-> <<p>>,
       retryAfterHeader |-> <<>>]
        : st \in SuccessStatuses, ct \in BOOLEAN, ok \in BOOLEAN, p \in Payloads }
TransportThrows ==
    { [kind |-> "throw", status |-> 0, contentTypeJson |-> FALSE, jsonOk |-> FALSE,
       json |-> NoBody, text |-> m, retryAfterHeader |-> <<>>] : m \in ThrowMsgs }
TransportOutcomes == ErrorResponses \cup SuccessResponses \cup TransportThrows

\* An Error object that carries no type tag: what requestUrl or the json getter throws.
NoType == "undefined"
rawError(message) ==
    [type |-> NoType, message |-> message, status |-> <<>>, errorMessages |-> <<>>]
jsonSyntaxError == rawError(<<"Unexpected", "token">>)

\* errorData.message || errorData.errorMessages?.[0] || fallback
errorMessageOf(errorData, fallback) ==
    IF errorData.message # <<>> THEN errorData.message
    ELSE IF errorData.errorMessages # <<>> /\ errorData.errorMessages[1] # <<>>
         THEN errorData.errorMessages[1]
         ELSE fallback

\* try { errorData = response.json || {} } catch { errorData = { message: text || status } }
errorDataOf(response) ==
    IF response.jsonOk
    THEN [message |-> response.json.message, errorMessages |-> response.json.errorMessages]
    ELSE [message |-> IF response.text # <<>> THEN response.text
                      ELSE <<ToString(response.status)>>,
          errorMessages |-> <<>>]

handleErrorResponse_serverMessage429(response) ==
    LET status == response.status
        errorData == errorDataOf(response)
    IN  IF status = 401 \/ status = 403
        THEN [type |-> "AUTHENTICATION_ERROR",
              message |-> errorMessageOf(errorData, <<"Authentication", "failed">>),
              status |-> <<status>>, errorMessages |-> <<>>]
        ELSE IF status = 429
        THEN [type |-> "RATE_LIMIT_ERROR",
              message |-> errorMessageOf(errorData, <<"Rate", "limit", "exceeded">>),
              status |-> <<>>, errorMessages |-> <<>>,
              retryAfter |-> retryAfterOf(response.retryAfterHeader)]
        ELSE [type |-> "JIRA_API_ERROR",
              message |-> errorMessageOf(errorData, <<"API", "error", "occurred">>),
              status |-> <<status>>, errorMessages |-> errorData.errorMessages]

handleErrorResponse(response) ==
    LET status == response.status
        errorData == errorDataOf(response)
    IN  IF status = 401 \/ status = 403
        THEN [type |-> "AUTHENTICATION_ERROR",
              message |-> errorMessageOf(errorData, <<"Authentication", "failed">>),
              status |-> <<status>>, errorMessages |-> <<>>]
        ELSE IF status = 429
        THEN [type |-> "RATE_LIMIT_ERROR",
              message |-> <<"Rate", "limit", "exceeded">>,
              status |-> <<>>, errorMessages |-> <<>>,
              retryAfter |-> retryAfterOf(response.retryAfterHeader)]
        ELSE [type |-> "JIRA_API_ERROR",
              message |-> errorMessageOf(errorData, <<"API", "error", "occurred">>),
              status |-> <<status>>, errorMessages |-> errorData.errorMessages]

isRetryableError(error) ==
    \/ includes(error.message, "network")
    \/ includes(error.message, "timeout")
    \/ (error.status # <<>> /\ error.status[1] >= 500)

calculateRetryDelay_uncapped(attempt) == BaseDelayMs * Pow2(attempt)

calculateRetryDelay(attempt) == Min(BaseDelayMs * Pow2(attempt), MaxDelayMs)

\* A call of request(): where it stands, and what it has done so far.
\*   pc       "await" (requestUrl in flight), "sleep" (backoff), "done"
\*   calls    history: number of requestUrl invocations
\*   sleeps   history: the backoff delays slept, in order
\*   seen     history: <<kind, status>> of every transport outcome, in order
\*   settled  <<>> while pending, else <<[state, value, error]>>
fulfil(r, value) ==
    [r EXCEPT !.pc = "done",
              !.settled = <<[state |-> "fulfilled", value |-> value, error |-> <<>>]>>]
reject(r, error) ==
    [r EXCEPT !.pc = "done",
              !.settled = <<[state |-> "rejected", value |-> "", error |-> error]>>]

\* The head of the for loop up to the await of requestUrl.
loopTop(r) ==
    IF r.attempt <= r.maxRetries
    THEN [r EXCEPT !.pc = "await", !.calls = @ + 1]
    ELSE reject(r, r.lastError)                         \* throw lastError!

\* const maxRetries = options.retries ?? this.config.maxRetries, then the loop head.
\* `given` keeps options.retries and config.maxRetries as they were passed.
requestEnter(retriesOption, configMaxRetries) ==
    loopTop([ pc |-> "enter", attempt |-> 0,
              maxRetries |-> IF retriesOption # <<>> THEN retriesOption[1]
                             ELSE configMaxRetries,
              given |-> [retries |-> retriesOption, maxRetries |-> configMaxRetries],
              calls |-> 0, sleeps |-> <<>>, seen |-> <<>>,
              lastError |-> <<>>, settled |-> <<>> ])

backoff(r) ==
    [r EXCEPT !.pc = "sleep", !.sleeps = Append(@, calculateRetryDelay(r.attempt))]

\* catch (error) { ... } of request()
catchBlock(r, error) ==
    LET r1 == [r EXCEPT !.lastError = <<error>>]
    IN  IF r.attempt >= r.maxRetries THEN reject(r1, <<error>>)
        ELSE IF isRetryableError(error) THEN backoff(r1)
        ELSE reject(r1, <<error>>)

tryBlock_noServerRetry(r, outcome) ==
    IF outcome.kind = "throw" THEN catchBlock(r, rawError(outcome.text))
    ELSE IF outcome.status >= 200 /\ outcome.status < 300
    THEN IF outcome.contentTypeJson
         THEN IF outcome.jsonOk THEN fulfil(r, outcome.json.payload)
              ELSE catchBlock(r, jsonSyntaxError)
         ELSE fulfil(r, outcome.text[1])
    ELSE reject([r EXCEPT !.lastError = <<handleErrorResponse(outcome)>>],
                <<handleErrorResponse(outcome)>>)

\* try { ... } of request(), from the point where requestUrl settles
tryBlock(r, outcome) ==
    IF outcome.kind = "throw" THEN catchBlock(r, rawError(outcome.text))
    ELSE IF outcome.status >= 200 /\ outcome.status < 300
    THEN IF outcome.contentTypeJson
         THEN IF outcome.jsonOk THEN fulfil(r, outcome.json.payload)
              ELSE catchBlock(r, jsonSyntaxError)
         ELSE fulfil(r, outcome.text[1])
    ELSE LET error == handleErrorResponse(outcome)
         IN  IF outcome.status >= 400 /\ outcome.status < 500
             THEN catchBlock(r, error)
             ELSE IF r.attempt < r.maxRetries /\ outcome.status >= 500
             THEN backoff(r)
             ELSE catchBlock(r, error)

\* What the model remembers of a transport outcome: of a response with a status
\* in [200,300) the body as received, of any other its status and Retry-After.
seenOf(outcome) ==
    [kind |-> outcome.kind, status |-> outcome.status,
     retryAfterHeader |-> outcome.retryAfterHeader,
     body |-> IF outcome.kind = "response" /\ outcome.status >= 200 /\ outcome.status < 300
              THEN <<[contentTypeJson |-> outcome.contentTypeJson, jsonOk |-> outcome.jsonOk,
                      json |-> outcome.json.payload, text |-> outcome.text[1]]>>
              ELSE <<>>]

onTransportOutcome(r, outcome) ==
    tryBlock([r EXCEPT !.seen = Append(@, seenOf(outcome))], outcome)

\* continue: attempt++ and back to the head of the loop
afterSleep(r) == loopTop([r EXCEPT !.attempt = @ + 1])

(***************************************************************************)
(* One client on its own, against every transport                          *)
(***************************************************************************)
RetriesOptions == {<<>>, <<0>>, <<2>>}
ConfigMaxRetries == {1, DefaultMaxRetries}

InitHttp ==
    /\ now = 0
    /\ rl = NewRateLimiter([requestsPerMinute |-> 100, burstLimit |-> 100], 0)
    /\ nextTick = RefillIntervalMs
    /\ grantLog = <<>>
    /\ lastResult = <<>>
    /\ lastRead = <<>>
    /\ req = NoRequest
    /\ hreq = NoRequest
    /\ dedupMap = <<>>
    /\ execs = <<>>
    /\ calls = <<>>
    /\ tokensGranted = 0
    /\ transportCalls = 0
    /\ batches = <<>>

StartRequest ==
    /\ req.pc \in {"idle", "done"}
    /\ \E o \in RetriesOptions, m \in ConfigMaxRetries : req' = requestEnter(o, m)
    /\ UNCHANGED <<now, limVars, hreq, svcVars>>

TransportSettles ==
    /\ req.pc = "await"
    /\ \E outcome \in TransportOutcomes : req' = onTransportOutcome(req, outcome)
    /\ UNCHANGED <<now, limVars, hreq, svcVars>>

SleepEnds ==
    /\ req.pc = "sleep"
    /\ req' = afterSleep(req)
    /\ UNCHANGED <<now, limVars, hreq, svcVars>>

NextHttp ==
    \/ StartRequest
    \/ TransportSettles
    \/ SleepEnds

SpecHttp == InitHttp /\ [][NextHttp]_vars

Is5xx(o) == o.kind = "response" /\ o.status >= 500
Is4xx(o) == o.kind = "response" /\ o.status >= 400 /\ o.status < 500
Settled(r) == r.pc = "done" /\ r.settled # <<>>
Rejected(r) == Settled(r) /\ r.settled[1].state = "rejected"
RejectionOf(r) == r.settled[1].error[1]

(***************************************************************************)
(* C6: when every transport response of a call has a status >= 500, the    *)
(* call ends only after maxRetries + 1 transport invocations, and then     *)
(* rejects with a JIRA_API_ERROR carrying the status of the last response. *)
(***************************************************************************)
C6_ExhaustedRetries ==
    (req.pc # "idle" /\ \A i \in 1..Len(req.seen) : Is5xx(req.seen[i]))
    => /\ req.calls <= req.maxRetries + 1
       /\ req.pc = "done" =>
            /\ req.calls = req.maxRetries + 1
            /\ Len(req.seen) = req.calls
            /\ Rejected(req)
            /\ RejectionOf(req).type = "JIRA_API_ERROR"
            /\ RejectionOf(req).status = <<req.seen[Len(req.seen)].status>>

\* The default configuration: four 5xx responses, then the rejection.
C6_Witness ==
    /\ req.pc = "done"
    /\ req.maxRetries = DefaultMaxRetries
    /\ Len(req.seen) = 4
    /\ \A i \in 1..4 : Is5xx(req.seen[i])
    /\ req.seen[1].status # req.seen[4].status

(***************************************************************************)
(* C7: a response with status 401 or 403, or any other status in           *)
(* [400,500) except 429, ends the call at once: it rejects with            *)
(* AUTHENTICATION_ERROR (401, 403) or JIRA_API_ERROR, no transport         *)
(* invocation follows it, and when it is the first response the transport  *)
(* has been invoked exactly once, whatever body the server sent.           *)
(***************************************************************************)
C7_ClientErrorsNeverRetried ==
    req.pc # "idle" =>
        \A i \in 1..Len(req.seen) :
            (Is4xx(req.seen[i]) /\ req.seen[i].status # 429)
            => /\ i = Len(req.seen)
               /\ req.calls = i
               /\ Rejected(req)
               /\ RejectionOf(req).type =
                     IF req.seen[i].status \in {401, 403}
                     THEN "AUTHENTICATION_ERROR" ELSE "JIRA_API_ERROR"

ErrorTypes ==
    { "NETWORK_ERROR", "AUTHENTICATION_ERROR", "RATE_LIMIT_ERROR", "JIRA_API_ERROR",
      "VALIDATION_ERROR" }

C10_ClosedErrorTaxonomy ==
    Rejected(req) => (req.settled[1].error # <<>> /\ RejectionOf(req).type \in ErrorTypes)

(***************************************************************************)
(* C11: when the transport raises on every attempt of a call, before any   *)
(* status is available and whatever the message of the error, the call is  *)
(* retried with one backoff sleep per retry, and it ends only after        *)
(* maxRetries + 1 transport invocations.                                   *)
(***************************************************************************)
C11_NetworkFailuresRetried ==
    (req.pc # "idle" /\ \A i \in 1..Len(req.seen) : req.seen[i].kind = "throw")
    => /\ req.calls <= req.maxRetries + 1
       /\ req.pc = "done" =>
            /\ req.calls = req.maxRetries + 1
            /\ Len(req.sleeps) = req.maxRetries
            /\ Rejected(req)

(***************************************************************************)
(* C27: ObsidianHttpClient.request makes at most retries + 1 transport     *)
(* invocations, retries being options.retries when given and               *)
(* config.maxRetries otherwise; and the first response with a status in    *)
(* [200,300) ends the call: it is the last transport invocation, and the   *)
(* call fulfils with the body of that response, the parsed JSON when the   *)
(* content type is application/json and the text otherwise.                *)
(***************************************************************************)
C27_AttemptBoundEarlyExit ==
    req # NoRequest =>
        /\ req.maxRetries = IF req.given.retries # <<>> THEN req.given.retries[1]
                            ELSE req.given.maxRetries
        /\ req.calls <= req.maxRetries + 1
        /\ Len(req.seen) <= req.calls
        /\ \A i \in 1..Len(req.seen) :
              req.seen[i].body # <<>>
              => /\ i = Len(req.seen)
                 /\ req.calls = i
                 /\ req.pc = "done"
                 /\ req.settled[1].state = "fulfilled"
                 /\ req.settled[1].value = IF req.seen[i].body[1].contentTypeJson
                                           THEN req.seen[i].body[1].json
                                           ELSE req.seen[i].body[1].text

(***************************************************************************)
(* HttpClient (httpClient.ts): the axios client                            *)
(*                                                                         *)
(* An error value carries isAxiosError, which axios.isAxiosError reads: an *)
(* AxiosError has it, the plain objects built by the create...Error        *)
(* methods do not.  response is <<>> when no response was received.        *)
(***************************************************************************)
AxiosErrorStatuses == {400, 401, 429, 500, 503}
AxiosData == {<<>>, <<<<"issue", "not", "found">>>>}    \* response.data.errorMessages

\* What axiosInstance's adapter settles with: a 2xx response, a response
\* outside validateStatus (an AxiosError with response), or no response.
AxiosOutcomes ==
    { [kind |-> "response", status |-> 200, errorMessages |-> <<>>,
       message |-> <<>>, data |-> p, retryAfterHeader |-> <<>>] : p \in Payloads }
    \cup
    UNION { { [kind |-> "response", status |-> st, errorMessages |-> d,
               message |-> <<"Request", "failed", "with", "status", "code", ToString(st)>>,
               data |-> "", retryAfterHeader |-> h] : d \in AxiosData, h \in HeadersFor(st) }
          : st \in AxiosErrorStatuses }
    \cup
    { [kind |-> "throw", status |-> 0, errorMessages |-> <<>>, message |-> m, data |-> "",
       retryAfterHeader |-> <<>>]
        : m \in { <<"timeout", "of", "5000ms", "exceeded">>, <<"Network", "Error">> } }

\* The AxiosError the adapter rejects with.
axiosError(outcome) ==
    [isAxiosError |-> TRUE,
     response |-> IF outcome.kind = "response"
                  THEN <<[status |-> outcome.status, errorMessages |-> outcome.errorMessages,
                          retryAfterHeader |-> outcome.retryAfterHeader]>>
                  ELSE <<>>,
     type |-> NoType, message |-> outcome.message, status |-> <<>>]

createNetworkError(error) ==
    [isAxiosError |-> FALSE, response |-> <<>>, type |-> "NETWORK_ERROR",
     message |-> IF error.message # <<>> THEN error.message
                 ELSE <<"Network", "error", "occurred">>,
     status |-> <<>>, cause |-> error]

\* data?.errorMessages?.[0] || error.message || fallback
HttpClient_messageOf(error, fallback) ==
    IF error.response[1].errorMessages # <<>> THEN error.response[1].errorMessages[1]
    ELSE IF error.message # <<>> THEN error.message
    ELSE fallback

createAuthenticationError(error) ==
    [isAxiosError |-> FALSE, response |-> <<>>, type |-> "AUTHENTICATION_ERROR",
     message |-> HttpClient_messageOf(error, <<"Authentication", "failed">>),
     status |-> <<error.response[1].status>>]

createRateLimitErrorFromResponse(error) ==
    [isAxiosError |-> FALSE, response |-> <<>>, type |-> "RATE_LIMIT_ERROR",
     message |-> <<"Rate", "limit", "exceeded">>, status |-> <<>>,
     retryAfter |-> retryAfterOf(error.response[1].retryAfterHeader)]

createApiError(error) ==
    [isAxiosError |-> FALSE, response |-> <<>>, type |-> "JIRA_API_ERROR",
     message |-> HttpClient_messageOf(error, <<"API", "error", "occurred">>),
     status |-> <<error.response[1].status>>]

handleError(error) ==
    IF error.isAxiosError
    THEN IF error.response = <<>> THEN createNetworkError(error)
         ELSE IF error.response[1].status \in {401, 403}
              THEN createAuthenticationError(error)
         ELSE IF error.response[1].status = 429
              THEN createRateLimitErrorFromResponse(error)
         ELSE createApiError(error)
    ELSE createNetworkError(error)

isClientError(error) ==
    /\ error.isAxiosError
    /\ error.response # <<>>
    /\ error.response[1].status >= 400
    /\ error.response[1].status < 500
isServerError(error) ==
    error.isAxiosError /\ error.response # <<>> /\ error.response[1].status >= 500
isAuthError(error) ==
    error.isAxiosError /\ error.response # <<>> /\ error.response[1].status \in {401, 403}
isRateLimitError(error) ==
    error.isAxiosError /\ error.response # <<>> /\ error.response[1].status = 429
isNetworkError(error) == error.isAxiosError /\ error.response = <<>>

HttpClient_calculateRetryDelay(attempt) == Min(BaseDelayMs * Pow2(attempt), MaxDelayMs)

\* const maxRetries = options.retries ?? this.config.maxRetries, then the loop head
HttpClient_requestEnter(retriesOption, configMaxRetries) ==
    loopTop([ pc |-> "enter", attempt |-> 0,
              maxRetries |-> IF retriesOption # <<>> THEN retriesOption[1]
                             ELSE configMaxRetries,
              calls |-> 0, sleeps |-> <<>>, seen |-> <<>>,
              lastError |-> <<>>, settled |-> <<>> ])

\* catch (error) { ... } of HttpClient.request
HttpClient_catchBlock(r, error) ==
    LET r1 == [r EXCEPT !.lastError = <<error>>]
    IN  IF isClientError(error) \/ isAuthError(error) THEN reject(r1, <<error>>)
        ELSE IF isRateLimitError(error) THEN reject(r1, <<error>>)
        ELSE IF r.attempt < r.maxRetries /\ (isServerError(error) \/ isNetworkError(error))
        THEN [r1 EXCEPT !.pc = "sleep",
                        !.sleeps = Append(@, HttpClient_calculateRetryDelay(r.attempt))]
        ELSE reject(r1, <<error>>)

\* axiosInstance.request(config) settles: the response interceptor passes a
\* response through and turns a rejection into handleError(error), which is
\* what the catch block of request() receives.
onAxiosOutcome(r, outcome) ==
    LET r1 == [r EXCEPT !.seen = Append(@, [kind |-> outcome.kind, status |-> outcome.status,
                                            retryAfterHeader |-> outcome.retryAfterHeader])]
    IN  IF outcome.kind = "response" /\ outcome.status >= 200 /\ outcome.status < 300
        THEN fulfil(r1, outcome.data)
        ELSE HttpClient_catchBlock(r1, handleError(axiosError(outcome)))

(***************************************************************************)
(* C21: the RATE_LIMIT_ERROR of a 429 response carries retryAfter = the    *)
(* seconds of the Retry-After header times 1000 when the header is a valid *)
(* number, and 60000 when the header is absent or not a valid number, in   *)
(* ObsidianHttpClient and in HttpClient.                                   *)
(***************************************************************************)
ValidSeconds == (<<"5">> :> 5) @@ (<<"1", "2", "0">> :> 120)

RetryAfterAsClaimed(r) ==
    (Rejected(r) /\ r.seen[Len(r.seen)].status = 429)
    => LET header == r.seen[Len(r.seen)].retryAfterHeader
       IN  /\ RejectionOf(r).type = "RATE_LIMIT_ERROR"
           /\ RejectionOf(r).retryAfter =
                 IF header \in DOMAIN ValidSeconds THEN Num(ValidSeconds[header] * 1000)
                 ELSE Num(60000)

C21_RetryAfterHandling == RetryAfterAsClaimed(req) /\ RetryAfterAsClaimed(hreq)

(***************************************************************************)
(* Both clients with many retries allowed, against a transport that fails  *)
(* often: the backoff schedule up to its cap                               *)
(***************************************************************************)
MaxBackoffRetries == 6     \* 1000 * 2^5 = 32000 is the first delay above the cap

BackoffRetriesOptions == {<<>>, <<MaxBackoffRetries>>}

\* A server error, a transport failure whose message names a timeout, a
\* client error, a 429 with any Retry-After header, and a success.
BackoffOutcomes ==
    { o \in TransportOutcomes :
        \/ o.kind = "throw" /\ o.text = <<"request", "timeout">>
        \/ /\ o.kind = "response" /\ o.status \in {503, 404, 429, 200}
           /\ o.contentTypeJson /\ o.jsonOk
           /\ o.json.message = <<>> /\ o.json.errorMessages = <<>>
           /\ o.json.payload \in {"", "issue-A"} }

StartLongRequest ==
    /\ req.pc \in {"idle", "done"}
    /\ \E o \in BackoffRetriesOptions : req' = requestEnter(o, DefaultMaxRetries)
    /\ UNCHANGED <<now, limVars, hreq, svcVars>>

FlakyTransportSettles ==
    /\ req.pc = "await"
    /\ \E outcome \in BackoffOutcomes : req' = onTransportOutcome(req, outcome)
    /\ UNCHANGED <<now, limVars, hreq, svcVars>>

HttpClientRequest ==
    /\ hreq.pc \in {"idle", "done"}
    /\ \E o \in BackoffRetriesOptions : hreq' = HttpClient_requestEnter(o, DefaultMaxRetries)
    /\ UNCHANGED <<now, limVars, req, svcVars>>

\* axiosInstance.request settles; when the catch block chooses to back off,
\* the sleep and the next turn of the loop up to its await are part of the step.
AxiosSettles ==
    /\ hreq.pc = "await"
    /\ \E outcome \in AxiosOutcomes :
          LET r == onAxiosOutcome(hreq, outcome)
          IN  hreq' = IF r.pc = "sleep" THEN afterSleep(r) ELSE r
    /\ UNCHANGED <<now, limVars, req, svcVars>>

NextBackoff ==
    \/ StartLongRequest
    \/ FlakyTransportSettles
    \/ SleepEnds
    \/ HttpClientRequest
    \/ AxiosSettles

SpecBackoff == InitHttp /\ [][NextBackoff]_vars

\* The sleeps of a call so far follow the schedule, one per attempt made
\* after the first, the one in progress included.
BackoffSchedule(r) ==
    /\ \A k \in 1..Len(r.sleeps) :
          r.sleeps[k] = IF 1000 * 2^(k - 1) < 30000 THEN 1000 * 2^(k - 1) ELSE 30000
    /\ Len(r.sleeps) = (r.calls - 1) + (IF r.pc = "sleep" THEN 1 ELSE 0)

TransportStaysSilent ==
    /\ req.pc = "await"
    /\ req' = [req EXCEPT !.pc = "silent"]
    /\ UNCHANGED <<now, limVars, hreq, svcVars>>

NextLive ==
    \/ StartLongRequest
    \/ FlakyTransportSettles
    \/ SleepEnds
    \/ TransportStaysSilent

\* A transport that responds does so eventually, and a backoff timer fires.
SpecLive ==
    /\ InitHttp
    /\ [][NextLive]_vars
    /\ WF_vars(FlakyTransportSettles)
    /\ WF_vars(SleepEnds)

(***************************************************************************)
(* C17: every call of request() eventually settles, also when the          *)
(* transport never responds: the pending transport call ends in a          *)
(* rejection once the configured timeout has passed.                       *)
(***************************************************************************)
C17_EveryRequestSettles ==
    (req.pc \in {"await", "sleep", "silent"}) ~> (req.pc = "done")

(***************************************************************************)
(* JiraApiService over ObsidianHttpClient and RateLimiter (the wired stack)*)
(***************************************************************************)
\* cacheKeys of deduplicated methods, e.g. `getIssue:${issueIdOrKey}`
Keys == {"getIssue:TEST-1", "getIssue:TEST-2"}

\* What the server answers in the wired stack.
ServiceOutcomes ==
    { o \in TransportOutcomes :
        \/ /\ o.kind = "response" /\ o.status = 200 /\ o.contentTypeJson /\ o.jsonOk
           /\ o.json.payload = "issue-A"
        \/ /\ o.kind = "response" /\ o.status \in {404, 503} /\ o.jsonOk
           /\ o.json.message = <<>> /\ o.json.errorMessages = <<>> }

\* The key of an execution started by a method that does not go through deduplicateRequest.
NoKey == ""

InFlight(k) == { e \in 1..Len(execs) : execs[e].key = k /\ execs[e].pc # "settled" }

mapSet(map, k, v) == [x \in (DOMAIN map) \cup {k} |-> IF x = k THEN v ELSE map[x]]
mapDelete(map, k) == [x \in (DOMAIN map) \ {k} |-> map[x]]

rateLimitDenied_noRetryAfter(result) ==
    [type |-> "RATE_LIMIT_ERROR", message |-> <<"Rate", "limit", "exceeded">>,
     retryAfter |-> <<>>]

\* checkRateLimit(): the object thrown when the limiter denies
rateLimitDenied(result) ==
    [type |-> "RATE_LIMIT_ERROR", message |-> <<"Rate", "limit", "exceeded">>,
     retryAfter |-> result.retryAfter]

afterSettle_thenOnly(map, k, settlement) ==
    IF settlement.state = "fulfilled" THEN mapDelete(map, k) ELSE map

\* requestFn().finally(() => this.requestDeduplicationMap.delete(cacheKey))
afterSettle(map, k, settlement) == mapDelete(map, k)

\* The promise of execution e settles: every caller holding it sees the settlement.
deliver(cs, e, settlement) ==
    [i \in 1..Len(cs) |-> IF cs[i].exec = e THEN [cs[i] EXCEPT !.result = <<settlement>>]
                          ELSE cs[i]]

InitService ==
    /\ now = 0
    /\ \E c \in LimiterConfigs : rl = NewRateLimiter(c, 0)
    /\ nextTick = RefillIntervalMs
    /\ grantLog = <<>>
    /\ lastResult = <<>>
    /\ lastRead = <<>>
    /\ req = NoRequest
    /\ hreq = NoRequest
    /\ dedupMap = <<>>
    /\ execs = <<>>
    /\ calls = <<>>
    /\ tokensGranted = 0
    /\ transportCalls = 0
    /\ batches = <<>>

\* A deduplicated method (getIssue, ...) is called: deduplicateRequest(cacheKey, requestFn).
\* A joiner gets the stored promise.  Otherwise requestFn() runs, without a
\* suspension, through checkRateLimit() into acquireToken(), whose body is
\* executed before the first await yields; then the promise is stored.
ServiceCall(k) ==
    /\ Len(calls) < MaxCalls
    /\ IF k \in DOMAIN dedupMap
       THEN /\ calls' = Append(calls, [key |-> k, exec |-> dedupMap[k], fresh |-> FALSE,
                                       inflight |-> InFlight(k),
                                       result |-> execs[dedupMap[k]].settled])
            /\ UNCHANGED <<rl, execs, dedupMap, tokensGranted>>
       ELSE LET a == acquireToken(rl, now)
                e == Len(execs) + 1
            IN  /\ rl' = a.lim
                /\ tokensGranted' = tokensGranted + (IF a.result.allowed THEN 1 ELSE 0)
                /\ execs' = Append(execs, [key |-> k, pc |-> "gate", gate |-> a.result,
                                           http |-> NoRequest, wakeAt |-> 0,
                                           settled |-> <<>>])
                /\ dedupMap' = mapSet(dedupMap, k, e)
                /\ calls' = Append(calls, [key |-> k, exec |-> e, fresh |-> TRUE,
                                           inflight |-> InFlight(k), result |-> <<>>])
    /\ UNCHANGED <<now, nextTick, grantLog, lastResult, lastRead, httpVars, batches, transportCalls>>

\* Execution e ends with `settlement`: the finally callback runs, then its promise settles.
SettleExec(e, settlement) ==
    /\ dedupMap' = IF execs[e].key = NoKey THEN dedupMap
                   ELSE afterSettle(dedupMap, execs[e].key, settlement)
    /\ calls' = deliver(calls, e, settlement)

\* The continuation of `await this.rateLimiter.acquireToken()` in checkRateLimit.
GateContinues(e) ==
    /\ execs[e].pc = "gate"
    /\ IF execs[e].gate.allowed
       THEN /\ execs' = [execs EXCEPT ![e].pc = "http",
                                      ![e].http = requestEnter(<<>>, DefaultMaxRetries)]
            /\ transportCalls' = transportCalls + 1
            /\ UNCHANGED <<dedupMap, calls>>
       ELSE LET settlement == [state |-> "rejected", value |-> "",
                               error |-> <<rateLimitDenied(execs[e].gate)>>]
            IN  /\ execs' = [execs EXCEPT ![e].pc = "settled", ![e].settled = <<settlement>>]
                /\ SettleExec(e, settlement)
                /\ UNCHANGED transportCalls
    /\ UNCHANGED <<now, limVars, httpVars, batches, tokensGranted>>

\* requestUrl settles for execution e.
TransportSettlesFor(e, outcome) ==
    /\ execs[e].pc = "http"
    /\ execs[e].http.pc = "await"
    /\ LET h == onTransportOutcome(execs[e].http, outcome)
       IN  IF h.pc = "done"
           THEN /\ execs' = [execs EXCEPT ![e].http = h, ![e].pc = "settled",
                                          ![e].settled = h.settled]
                /\ SettleExec(e, h.settled[1])
           ELSE /\ execs' = [execs EXCEPT ![e].http = h,
                                          ![e].wakeAt = now + h.sleeps[Len(h.sleeps)]]
                /\ UNCHANGED <<dedupMap, calls>>
    /\ UNCHANGED <<now, limVars, httpVars, batches, tokensGranted, transportCalls>>

\* The backoff timer of execution e fires: the loop goes round and calls requestUrl again.
SleepEndsFor(e) ==
    /\ execs[e].pc = "http"
    /\ execs[e].http.pc = "sleep"
    /\ now >= execs[e].wakeAt
    /\ execs' = [execs EXCEPT ![e].http = afterSleep(@)]
    /\ transportCalls' = transportCalls + 1
    /\ UNCHANGED <<now, limVars, httpVars, batches, dedupMap, calls, tokensGranted>>

\* JiraApiService.destroy()
ServiceDestroy ==
    /\ rl' = limiterDestroy(rl)
    /\ dedupMap' = <<>>
    /\ UNCHANGED <<now, nextTick, grantLog, lastResult, lastRead, httpVars, batches, execs, calls,
                   tokensGranted, transportCalls>>

ServiceAdvanceClock ==
    /\ \E d \in ClockSteps : now + d <= MaxServiceClock /\ now' = now + d
    /\ UNCHANGED <<limVars, httpVars, svcVars>>

Next ==
    \/ ServiceAdvanceClock
    \/ RefillTick
    \/ \E k \in Keys : ServiceCall(k)
    \/ \E e \in 1..Len(execs) : GateContinues(e)
    \/ \E e \in 1..Len(execs), o \in ServiceOutcomes : TransportSettlesFor(e, o)
    \/ \E e \in 1..Len(execs) : SleepEndsFor(e)
    \/ ServiceDestroy

Spec == InitService /\ [][Next]_vars

(***************************************************************************)
(* C3: a call issued while an execution under the same cacheKey is in      *)
(* flight does not invoke requestFn again: it shares that one execution,   *)
(* and the callers of one key that overlap settle alike.                   *)
(***************************************************************************)
C3_DedupCoalescing ==
    \A j \in 1..Len(calls) :
        calls[j].inflight # {}
        => /\ ~calls[j].fresh
           /\ calls[j].exec \in calls[j].inflight
           /\ \A i \in 1..(j - 1) :
                (calls[i].key = calls[j].key /\ calls[i].exec \in calls[j].inflight)
                => /\ calls[i].exec = calls[j].exec
                   /\ (calls[i].result # <<>> /\ calls[j].result # <<>>)
                        => calls[i].result = calls[j].result

(***************************************************************************)
(* C4: for every cacheKey at most one execution of a requestFn started     *)
(* under that key is in flight at any instant.                             *)
(***************************************************************************)
C4_SingleFlightPerKey == \A k \in Keys : Cardinality(InFlight(k)) <= 1

(***************************************************************************)
(* C5: once an execution has settled, fulfilled or rejected, its key is    *)
(* absent from requestDeduplicationMap (no entry ever holds a settled      *)
(* promise), and a call that finds no execution of its key in flight       *)
(* invokes its own requestFn.                                              *)
(***************************************************************************)
C5_DedupCleanup ==
    /\ [](/\ \A k \in DOMAIN dedupMap : execs[dedupMap[k]].pc # "settled"
          /\ \A j \in 1..Len(calls) : calls[j].inflight = {} => calls[j].fresh)
    /\ [][\A e \in 1..Len(execs) :
            (execs[e].pc # "settled" /\ execs'[e].pc = "settled")
            => execs[e].key \notin DOMAIN dedupMap']_vars

\* A call rejected by a limiter denial, then a later call of the same key that ran its own requestFn.
C5_Witness ==
    \E i \in 1..Len(calls) : \E j \in (i + 1)..Len(calls) :
        /\ calls[i].key = calls[j].key
        /\ calls[i].result # <<>>
        /\ calls[i].result[1].state = "rejected"
        /\ calls[i].result[1].error[1].type = "RATE_LIMIT_ERROR"
        /\ calls[j].fresh
        /\ calls[j].exec # calls[i].exec
        /\ calls[j].inflight = {}

(***************************************************************************)
(* C9: every transport invocation, retries included, is preceded by its   *)
(* own granted acquireToken(): the number of transport invocations never   *)
(* exceeds the number of tokens granted.                                   *)
(***************************************************************************)
C9_RetryConsumesCapacity == transportCalls <= tokensGranted

C16_AcquireAtomic ==
    /\ [](/\ rl.queue = <<>>
          /\ \A e \in 1..Len(execs) :
                IF execs[e].gate.allowed THEN execs[e].gate.error = <<>>
                ELSE execs[e].gate.error = <<"RATE_LIMITED">>
          /\ Cardinality({e \in 1..Len(execs) : execs[e].gate.allowed}) = tokensGranted
          /\ rl.lastRefillTime = 0 =>
                tokensGranted = IF Len(execs) < rl.burstLimit THEN Len(execs)
                                ELSE rl.burstLimit)
    /\ [][(/\ Len(execs') = Len(execs) + 1
           /\ (now - rl.lastRefillTime) * rl.requestsPerMinute < 60000)
          => /\ execs'[Len(execs')].gate.allowed = (rl.tokens > 0)
             /\ rl'.tokens = IF rl.tokens > 0 THEN rl.tokens - 1 ELSE 0]_vars

\* Three calls waiting on a bucket of two: two granted, one denied.
C16_Witness ==
    /\ rl.lastRefillTime = 0
    /\ rl.burstLimit = 2
    /\ Len(execs) = 3
    /\ \A e \in 1..3 : execs[e].pc = "gate"
    /\ tokensGranted = 2
    /\ ~execs[3].gate.allowed

(***************************************************************************)
(* The limiter with waiters in its queue.  No method of the class pushes   *)
(* to the queue, so the waiters are given: the limiter starts drained,     *)
(* with waiters 1..n enqueued in that order, and runs under the clock.     *)
(***************************************************************************)
InitQueue ==
    /\ now = 0
    /\ \E c \in BucketConfigs, n \in 0..MaxWaiters :
          rl = [NewRateLimiter(c, 0) EXCEPT !.tokens = 0, !.queue = [i \in 1..n |-> i]]
    /\ nextTick = RefillIntervalMs
    /\ grantLog = <<>>
    /\ lastResult = <<>>
    /\ lastRead = <<>>
    /\ req = NoRequest
    /\ hreq = NoRequest
    /\ dedupMap = <<>>
    /\ execs = <<>>
    /\ calls = <<>>
    /\ tokensGranted = 0
    /\ transportCalls = 0
    /\ batches = <<>>

SpecQueue == InitQueue /\ [][NextLimiter]_vars

Destroyed == [allowed |-> FALSE, remaining |-> 0, retryAfter |-> <<>>,
              error |-> <<"RATE_LIMITER_DESTROYED">>]

DrainStep == Len(rl'.resolved) > Len(rl.resolved) /\ rl'.timerActive = rl.timerActive

GetStats ==
    /\ rl' = getStats(rl, now).lim
    /\ lastRead' = <<[op |-> "getStats", stats |-> <<getStats(rl, now).result>>,
                      size |-> <<>>]>>
    /\ UNCHANGED <<now, nextTick, grantLog, lastResult, httpVars, svcVars>>

GetQueueSize ==
    /\ rl' = getQueueSize(rl).lim
    /\ lastRead' = <<[op |-> "getQueueSize", stats |-> <<>>,
                      size |-> <<getQueueSize(rl).result>>]>>
    /\ UNCHANGED <<now, nextTick, grantLog, lastResult, httpVars, svcVars>>

NextReads ==
    \/ NextLimiter
    \/ GetStats
    \/ GetQueueSize

SpecReads == InitQueue /\ [][NextReads]_vars

Issues == {"TEST-1", "TEST-2"}
Bodies == {"A", "B"}
CommentId == "10001"

DedupMethods == {"getIssue", "updateIssue"}
DirectMethods == {"createIssue", "transitionIssue", "addComment", "updateComment",
                  "deleteComment"}

MethodCall(m, i, d) == [method |-> m, issue |-> i, data |-> d]

\* The single calls made to the service.
ServiceOps ==
    {MethodCall("getIssue", "TEST-1", "")}
    \cup {MethodCall("updateIssue", "TEST-1", d) : d \in Bodies}
    \cup {MethodCall("createIssue", "", "A")}
    \cup {MethodCall(m, "TEST-1", "A") : m \in {"transitionIssue", "addComment", "updateComment"}}
    \cup {MethodCall("deleteComment", "TEST-1", "")}

\* const cacheKey = `getIssue:${issueIdOrKey}`, `updateIssue:${issueIdOrKey}`
cacheKey(op) == op.method \o ":" \o op.issue

\* The HTTP request the method makes once the limiter has let it through.
httpRequestOf(op) ==
    LET issuePath == "/rest/api/3/issue/" \o op.issue
    IN  CASE op.method = "getIssue" ->
               [verb |-> "GET", path |-> issuePath, body |-> ""]
          [] op.method = "updateIssue" ->
               [verb |-> "PUT", path |-> issuePath, body |-> op.data]
          [] op.method = "createIssue" ->
               [verb |-> "POST", path |-> "/rest/api/3/issue", body |-> op.data]
          [] op.method = "transitionIssue" ->
               [verb |-> "POST", path |-> issuePath \o "/transitions", body |-> op.data]
          [] op.method = "addComment" ->
               [verb |-> "POST", path |-> issuePath \o "/comment", body |-> op.data]
          [] op.method = "updateComment" ->
               [verb |-> "PUT", path |-> issuePath \o "/comment/" \o CommentId,
                body |-> op.data]
          [] op.method = "deleteComment" ->
               [verb |-> "DELETE", path |-> issuePath \o "/comment/" \o CommentId,
                body |-> ""]

\* The service as the methods see it.
ServiceState ==
    [rl |-> rl, execs |-> execs, dedupMap |-> dedupMap, calls |-> calls,
     tokensGranted |-> tokensGranted]

inFlightIn(xs, k) == { e \in 1..Len(xs) : xs[e].key = k /\ xs[e].pc # "settled" }

\* The method runs requestFn: checkRateLimit() calls acquireToken(), whose body is
\* executed before the first await yields.  `k` is the cacheKey the promise is
\* stored under, NoKey when the method does not store it.
startExecution(s, op, k) ==
    LET a == acquireToken(s.rl, now)
        e == Len(s.execs) + 1
    IN  [rl |-> a.lim,
         tokensGranted |-> s.tokensGranted + (IF a.result.allowed THEN 1 ELSE 0),
         execs |-> Append(s.execs, [key |-> k, pc |-> "gate", gate |-> a.result,
                                    http |-> NoRequest, wakeAt |-> 0, settled |-> <<>>,
                                    sends |-> httpRequestOf(op)]),
         dedupMap |-> IF k = NoKey THEN s.dedupMap ELSE mapSet(s.dedupMap, k, e),
         calls |-> Append(s.calls, [key |-> k, exec |-> e, fresh |-> TRUE,
                                    inflight |-> IF k = NoKey THEN {}
                                                 ELSE inFlightIn(s.execs, k),
                                    result |-> <<>>, op |-> op])]

\* deduplicateRequest(cacheKey, requestFn): a caller that finds the key in the map
\* gets the stored promise, whatever requestFn it brought.
deduplicateRequest(s, op) ==
    LET k == cacheKey(op)
    IN  IF k \in DOMAIN s.dedupMap
        THEN [s EXCEPT !.calls = Append(@, [key |-> k, exec |-> s.dedupMap[k],
                                           fresh |-> FALSE,
                                           inflight |-> inFlightIn(s.execs, k),
                                           result |-> s.execs[s.dedupMap[k]].settled,
                                           op |-> op])]
        ELSE startExecution(s, op, k)

invoke_allDeduplicated(s, op) == deduplicateRequest(s, op)

\* One method call, up to its first suspension.
invoke(s, op) ==
    IF op.method \in DedupMethods THEN deduplicateRequest(s, op)
    ELSE startExecution(s, op, NoKey)

\* A single call of a method.
Invoke(op) ==
    /\ Len(calls) < MaxCalls
    /\ LET s == invoke(ServiceState, op)
       IN  /\ rl' = s.rl
           /\ execs' = s.execs
           /\ dedupMap' = s.dedupMap
           /\ calls' = s.calls
           /\ tokensGranted' = s.tokensGranted
    /\ UNCHANGED <<now, nextTick, grantLog, lastResult, lastRead, httpVars, transportCalls,
                   batches>>

\* What the server answers to the single calls, and to the items of a batch.
OpsOutcomes == { o \in ServiceOutcomes : o.status = 200 }
BatchOutcomes == { o \in ServiceOutcomes : o.status \in {200, 404} }

(***************************************************************************)
(* The batch methods.  A batch is cut into chunks of batchSize items; the  *)
(* items of a chunk are started in input order, each without a suspension, *)
(* and awaited together.  The batches drawn here fit in one chunk.         *)
(***************************************************************************)
BatchMethods == {"batchUpdateIssues", "batchGetIssues", "batchTransitionIssues"}

batchSize(bm) == IF bm = "batchGetIssues" THEN 20 ELSE 10

\* The method a batch method calls for each of its items.
itemMethod(bm) ==
    CASE bm = "batchUpdateIssues" -> "updateIssue"
      [] bm = "batchGetIssues" -> "getIssue"
      [] bm = "batchTransitionIssues" -> "transitionIssue"

BatchItems(bm) ==
    CASE bm = "batchUpdateIssues" ->
           { [issueIdOrKey |-> "TEST-1", data |-> "A"],
             [issueIdOrKey |-> "TEST-1", data |-> "B"],
             [issueIdOrKey |-> "TEST-2", data |-> "A"] }
      [] bm = "batchGetIssues" -> { [issueIdOrKey |-> i, data |-> ""] : i \in Issues }
      [] bm = "batchTransitionIssues" -> { [issueIdOrKey |-> i, data |-> "A"] : i \in Issues }

BatchInputs(bm) == UNION { [1..n -> BatchItems(bm)] : n \in 1..MaxBatchItems }

RECURSIVE invokeAll(_, _)
\* batch.map(async item => ...): the item calls start one after the other.
invokeAll(s, ops) ==
    IF ops = <<>> THEN s ELSE invokeAll(invoke(s, Head(ops)), Tail(ops))

itemPromise_noCatch(bm, item, callResult) ==
    IF callResult = <<>> THEN <<>>
    ELSE IF callResult[1].state = "fulfilled"
         THEN <<[state |-> "fulfilled",
                 value |-> [issueIdOrKey |-> item.issueIdOrKey,
                            result |-> [value |-> <<callResult[1].value>>, error |-> <<>>]]]>>
         ELSE <<[state |-> "rejected", value |-> callResult[1].error[1]]>>

\* The promise of one item: try { result = await this.method(...) } catch (error)
\* { result: error }.  batchTransitionIssues answers result: undefined on success.
itemPromise(bm, item, callResult) ==
    IF callResult = <<>> THEN <<>>
    ELSE <<[state |-> "fulfilled",
            value |-> [issueIdOrKey |-> item.issueIdOrKey,
                       result |-> IF callResult[1].state = "rejected"
                                  THEN [value |-> <<>>, error |-> callResult[1].error]
                                  ELSE IF bm = "batchTransitionIssues"
                                  THEN [value |-> <<>>, error |-> <<>>]
                                  ELSE [value |-> <<callResult[1].value>>,
                                        error |-> <<>>]]]>>

\* Promise.all: rejected as soon as one promise is, fulfilled with the values in
\* the order of the promises when all are.
promiseAll(ps) ==
    IF \E i \in 1..Len(ps) : ps[i] # <<>> /\ ps[i][1].state = "rejected"
    THEN LET i == CHOOSE i \in 1..Len(ps) : ps[i] # <<>> /\ ps[i][1].state = "rejected"
         IN  <<[state |-> "rejected", value |-> <<>>, error |-> <<ps[i][1].value>>]>>
    ELSE IF \E i \in 1..Len(ps) : ps[i] = <<>> THEN <<>>
    ELSE <<[state |-> "fulfilled", value |-> [i \in 1..Len(ps) |-> ps[i][1].value],
            error |-> <<>>]>>

itemPromises(b) ==
    [i \in 1..Len(b.items) |-> itemPromise(b.method, b.items[i], calls[b.firstCall + i - 1].result)]

\* batchUpdateIssues(items), batchGetIssues(items), batchTransitionIssues(items) is
\* called, on a service with nothing in flight.
BatchStart(bm, items) ==
    /\ batches = <<>>
    /\ Len(items) <= batchSize(bm)
    /\ LET ops == [i \in 1..Len(items) |->
                     MethodCall(itemMethod(bm), items[i].issueIdOrKey, items[i].data)]
           s == invokeAll(ServiceState, ops)
       IN  /\ rl' = s.rl
           /\ execs' = s.execs
           /\ dedupMap' = s.dedupMap
           /\ calls' = s.calls
           /\ tokensGranted' = s.tokensGranted
           /\ batches' = Append(batches, [method |-> bm, items |-> items,
                                          firstCall |-> Len(calls) + 1,
                                          acquired |-> Len(s.execs) - Len(execs),
                                          settled |-> <<>>])
    /\ UNCHANGED <<now, nextTick, grantLog, lastResult, lastRead, httpVars, transportCalls>>

\* await Promise.all(batchPromises) continues; results.push(...batchResults); return results
BatchSettles(b) ==
    /\ batches[b].settled = <<>>
    /\ promiseAll(itemPromises(batches[b])) # <<>>
    /\ batches' = [batches EXCEPT ![b].settled = promiseAll(itemPromises(batches[b]))]
    /\ UNCHANGED <<now, limVars, httpVars, dedupMap, execs, calls, tokensGranted,
                   transportCalls>>

NextOps ==
    \/ \E op \in ServiceOps : Invoke(op)
    \/ \E e \in 1..Len(execs) : GateContinues(e)
    \/ \E e \in 1..Len(execs), o \in OpsOutcomes : TransportSettlesFor(e, o)

SpecOps == InitService /\ [][NextOps]_vars

NextBatch ==
    \/ \E bm \in BatchMethods : \E items \in BatchInputs(bm) : BatchStart(bm, items)
    \/ \E e \in 1..Len(execs) : GateContinues(e)
    \/ \E e \in 1..Len(execs), o \in BatchOutcomes : TransportSettlesFor(e, o)
    \/ \E b \in 1..Len(batches) : BatchSettles(b)

SpecBatch == InitService /\ [][NextBatch]_vars


(***************************************************************************)
(* C22: two calls are coalesced only when they are the same logical        *)
(* operation, method, path and request body alike: the promise a caller    *)
(* holds is that of an execution sending the caller's own request, so two  *)
(* overlapping updateIssue calls on one issue with different updateData    *)
(* each send their own PUT.                                                *)
(***************************************************************************)
C22_DedupKeyIdentity ==
    \A j \in 1..Len(calls) : execs[calls[j].exec].sends = httpRequestOf(calls[j].op)


DistinctKeys(b) ==
    /\ itemMethod(b.method) \in DedupMethods
    /\ \A i, j \in 1..Len(b.items) : i # j => b.items[i].issueIdOrKey # b.items[j].issueIdOrKey

Transient(seen) == seen.kind = "throw" \/ (seen.kind = "response" /\ seen.status >= 500)

(***************************************************************************)
(* C25: HttpClient.request, with the interceptors of the constructor in    *)
(* place, retries a 5xx response and a failure without response: it        *)
(* rejects on such a failure only when maxRetries retries have been made   *)
(* (maxRetries + 1 requests, a backoff sleep before each retry), and every *)
(* request but the last one ended in such a failure, so that a 4xx, a      *)
(* 401/403 and a 429 are never followed by a retry.                        *)
(***************************************************************************)
C25_AxiosRetriesTransient ==
    hreq # NoRequest =>
        /\ \A k \in 1..(Len(hreq.seen) - 1) : Transient(hreq.seen[k])
        /\ (Rejected(hreq) /\ Transient(hreq.seen[Len(hreq.seen)]))
           => /\ hreq.calls = hreq.maxRetries + 1
              /\ Len(hreq.sleeps) = hreq.maxRetries


(***************************************************************************)
(* HttpClient with a RateLimiter set by setRateLimiter: every              *)
(* axiosInstance.request goes through the request interceptor first.  A    *)
(* throw of the interceptor skips the dispatch and lands in the rejection  *)
(* handler of the response interceptor.                                    *)
(***************************************************************************)
\* createRateLimitError(result): a plain object
createRateLimitError(result) ==
    [isAxiosError |-> FALSE, response |-> <<>>, type |-> "RATE_LIMIT_ERROR",
     message |-> <<"Rate", "limit", "exceeded">>, status |-> <<>>,
     retryAfter |-> result.retryAfter]

RECURSIVE axiosRequest(_, _, _)
\* axiosInstance.request(config) of the request r waiting at its await, up to the
\* dispatch: the interceptor asks the limiter l at time t.  When it throws,
\* request() catches what the response interceptor made of the throw; should it
\* back off, the sleep and the next turn of the loop are part of the step.
axiosRequest(r, l, t) ==
    LET a == acquireToken(l, t)
    IN  IF a.result.allowed THEN [req |-> r, lim |-> a.lim, result |-> a.result]
        ELSE LET c == HttpClient_catchBlock(r, handleError(createRateLimitError(a.result)))
             IN  IF c.pc = "sleep" THEN axiosRequest(afterSleep(c), a.lim, t)
                 ELSE [req |-> c, lim |-> a.lim, result |-> a.result]

GateOutcomes == { o \in AxiosOutcomes : o.status \in {200, 503} /\ o.errorMessages = <<>> }

\* HttpClient.get/post/put/patch/delete is called.
GatedRequest ==
    /\ hreq.pc \in {"idle", "done"}
    /\ \E o \in RetriesOptions :
          LET g == axiosRequest(HttpClient_requestEnter(o, DefaultMaxRetries), rl, now)
          IN  /\ hreq' = g.req
              /\ rl' = g.lim
              /\ lastResult' = <<g.result>>
    /\ UNCHANGED <<now, nextTick, grantLog, lastRead, req, svcVars>>

\* The dispatched request settles.
GatedAxiosSettles ==
    /\ hreq.pc = "await"
    /\ \E outcome \in GateOutcomes :
          LET r == onAxiosOutcome(hreq, outcome)
              g == axiosRequest(afterSleep(r), rl, now)
          IN  IF r.pc = "sleep"
              THEN hreq' = g.req /\ rl' = g.lim /\ lastResult' = <<g.result>>
              ELSE hreq' = r /\ UNCHANGED <<rl, lastResult>>
    /\ UNCHANGED <<now, nextTick, grantLog, lastRead, req, svcVars>>

NextGate ==
    \/ ServiceAdvanceClock
    \/ RefillTick
    \/ GatedRequest
    \/ GatedAxiosSettles

SpecGate == InitService /\ [][NextGate]_vars

(***************************************************************************)
(* C26: when the limiter set on HttpClient denies a request, the request   *)
(* rejects with an error of type RATE_LIMIT_ERROR that carries the         *)
(* retryAfter of the limiter's answer, and nothing is dispatched for that  *)
(* attempt.                                                                *)
(***************************************************************************)
C26_HttpClientLimiterGate ==
    (lastResult # <<>> /\ ~lastResult[1].allowed)
    => /\ Rejected(hreq)
       /\ Len(hreq.seen) = hreq.calls - 1
       /\ RejectionOf(hreq).type = "RATE_LIMIT_ERROR"
       /\ RejectionOf(hreq).retryAfter = lastResult[1].retryAfter


\* The calls that overlap execution e under its key: its own callers, and the
\* callers of the same key that arrived while it was in flight.
Overlapping(e) ==
    { j \in 1..Len(calls) :
        calls[j].key = execs[e].key /\ (calls[j].exec = e \/ e \in calls[j].inflight) }

(***************************************************************************)
(* C28: the calls of one deduplicated method and key that overlap cause    *)
(* one acquireToken() call, that of the one requestFn they share, and when *)
(* the limiter denies it, every one of them is rejected with the same      *)
(* RATE_LIMIT_ERROR.                                                       *)
(***************************************************************************)
C28_JoinersAreFree ==
    \A e \in { x \in 1..Len(execs) : execs[x].key # NoKey } :
        /\ \A j \in Overlapping(e) : calls[j].exec = e
        /\ (~execs[e].gate.allowed /\ execs[e].pc = "settled")
           => \A j \in Overlapping(e) :
                /\ calls[j].result = execs[e].settled
                /\ calls[j].result[1].state = "rejected"
                /\ calls[j].result[1].error[1].type = "RATE_LIMIT_ERROR"


\* Call j is a call of createIssue, transitionIssue, addComment, updateComment or deleteComment.
IsDirect(j) == calls[j].op.method \in DirectMethods

(***************************************************************************)
(* C29: createIssue, transitionIssue, addComment, updateComment and        *)
(* deleteComment never read or write requestDeduplicationMap.  Every call  *)
(* of one of them runs its own execution: its own acquireToken() call and, *)
(* when granted, its own HTTP request carrying its own arguments, shared   *)
(* with no other call, whatever calls with the same arguments overlap it.  *)
(* The step that makes such a call, and the step that settles it, leave    *)
(* the map as it was, and no key of such a method is ever in the map.      *)
(***************************************************************************)
C29_WritesNeverCoalesced ==
    /\ [](/\ \A j \in 1..Len(calls) :
                IsDirect(j) =>
                    /\ calls[j].fresh
                    /\ calls[j].key = NoKey
                    /\ execs[calls[j].exec].sends = httpRequestOf(calls[j].op)
                    /\ \A i \in 1..Len(calls) : i # j => calls[i].exec # calls[j].exec
          /\ \A k \in DOMAIN dedupMap : execs[dedupMap[k]].key = k /\ k # NoKey)
    /\ [][/\ (Len(calls') = Len(calls) + 1 /\ calls'[Len(calls')].op.method \in DirectMethods)
             => /\ dedupMap' = dedupMap
                /\ Len(execs') = Len(execs) + 1
          /\ \A e \in 1..Len(execs) :
                (execs[e].key = NoKey /\ execs[e].pc # "settled" /\ execs'[e].pc = "settled")
                => dedupMap' = dedupMap]_vars

\* Two createIssue calls with the same arguments overlap: two tokens were
\* taken and two HTTP requests are on their way.
C29_Witness ==
    /\ Len(calls) >= 2
    /\ calls[1].op.method = "createIssue"
    /\ calls[2].op = calls[1].op
    /\ calls[1].exec # calls[2].exec
    /\ execs[calls[1].exec].pc = "http"
    /\ execs[calls[2].exec].pc = "http"
    /\ tokensGranted = 2
    /\ transportCalls = 2

====
